---- MODULE Spec2Model ----
(***************************************************************************)
(* Auto Split (obsidian-auto-split): a model of the plugin's settings      *)
(* record, its persistence, the file-open handler, the manual split        *)
(* command and the settings panel, for the four snapshots of the plugin    *)
(* that the repository holds:                                              *)
(*   "v1_0"  src/unnamed/part_000 lines  30-287  (no platform gating)      *)
(*   "v1_1"  src/main.ts          lines   1-299  (enabledOn, no await)     *)
(*   "v1_1b" src/main.ts          lines 301-570  (enabledOn, leaf count)   *)
(*   "v1_2"  src/unnamed/part_000 lines 289-571  (autoSplit, command)      *)
(* The host application (workspace, leaves, platform, data.json) is the    *)
(* environment.                                                            *)
(***************************************************************************)
EXTENDS Integers, Sequences, FiniteSets, TLC

VARIABLES
    variant,        \* which snapshot of the plugin is installed
    platform,       \* Platform: "desktop", "tablet" (isMobile), "phone" (isMobile, isPhone)
    phase,          \* "constructed" -> "loaded" (onload ran) -> "ready" (onLayoutReady ran)
    settings,       \* this.settings; its enabledOn field is a reference ("DEF" or "OWN")
    defEnabledOn,   \* the object DEFAULT_SETTINGS.enabledOn (shared by reference)
    ownEnabledOn,   \* the enabledOn object that loadData returned, when it returned one
    data,           \* the persisted blob (data.json); NoData when there is none
    saving,         \* saveData calls in flight, oldest first
    hasOpenFiles,   \* this.hasOpenFiles
    leaves,         \* the workspace's leaves, in split order (leading pane first)
    active,         \* id of workspace.activeLeaf, 0 when there is none
    pending,        \* openFile calls in flight, with the continuation that awaits them
    panel,          \* what the settings tab rendered: "closed", "notice", "controls"
    last            \* what the last step did (a log read by the properties)

vars == <<variant, platform, phase, settings, defEnabledOn, ownEnabledOn, data,
          saving, hasOpenFiles, leaves, active, pending, panel, last>>

\* ------------------------------------------------------------------ bounds

MaxDelta == 1         \* main-area sizes range over DEFAULT minSize - 1 .. + MaxDelta
MaxLeaves == 2        \* panes the workspace holds at most
MaxPending == 1       \* openFile calls in flight at most
MaxSaving == 2        \* saveData calls in flight at most

\* ------------------------------------------------------------- the settings

Variants == {"v1_0", "v1_1", "v1_1b", "v1_2"}
Platforms == {"desktop", "tablet", "phone"}
Directions == {"vertical", "horizontal", "auto"}
PaneTypes == {"source", "preview"}
NestedKeys == {"desktop", "mobile"}

HasEnabledOn(v) == v \in {"v1_1", "v1_1b"}
HasAutoSplit(v) == v = "v1_2"
HasCommand(v) == v = "v1_2"
AwaitsOpenFile(v) == v \in {"v1_1b", "v1_2"}

\* interface AutoSplitSettings
Fields(v) ==
    {"minSize", "direction", "editorFirst", "paneToFocus", "linkPanes"}
        \cup (IF HasEnabledOn(v) THEN {"enabledOn"} ELSE {})
        \cup (IF HasAutoSplit(v) THEN {"autoSplit"} ELSE {})

DEFAULT_minSize == 1000

MinSizes == {DEFAULT_minSize, DEFAULT_minSize + 1}

\* const DEFAULT_SETTINGS, with the nested enabledOn object written out
DEFAULT_enabledOn == [k \in NestedKeys |-> TRUE]

DEFAULT_SETTINGS(v) ==
    [k \in Fields(v) |->
        CASE k = "minSize" -> DEFAULT_minSize
          [] k = "direction" -> "auto"
          [] k = "editorFirst" -> TRUE
          [] k = "paneToFocus" -> "source"
          [] k = "linkPanes" -> TRUE
          [] k = "autoSplit" -> TRUE
          [] k = "enabledOn" -> DEFAULT_enabledOn]

\* A nested enabledOn object of a persisted blob may hold any subset of its keys.
NestedObjects == UNION {[S -> BOOLEAN] : S \in SUBSET NestedKeys}

NoData == [k \in {} |-> TRUE]

Record(v, ms, d, ef, pt, lp, au, eo) ==
    [k \in Fields(v) |->
        CASE k = "minSize" -> ms
          [] k = "direction" -> d
          [] k = "editorFirst" -> ef
          [] k = "paneToFocus" -> pt
          [] k = "linkPanes" -> lp
          [] k = "autoSplit" -> au
          [] k = "enabledOn" -> eo]

\* Every complete record over the fields of the variant; Nested is the set of
\* enabledOn objects to draw from.
Records(v, Nested) ==
    {Record(v, ms, d, ef, pt, lp, au, eo) :
        ms \in MinSizes, d \in Directions, ef \in BOOLEAN, pt \in PaneTypes,
        lp \in BOOLEAN, au \in BOOLEAN, eo \in Nested}

Restrict(f, S) == [k \in S |-> f[k]]

\* Every blob over the fields of the variant, any subset of fields omitted.
Blobs(v) ==
    {Restrict(r, S) : r \in Records(v, NestedObjects), S \in SUBSET Fields(v)}

\* What JSON.stringify(this.settings) writes: the flat fields, and the contents of
\* whichever enabledOn object the record references.
EnabledOnObject(s, def, own) == IF s["enabledOn"] = "DEF" THEN def ELSE own

SettingsValue(s, def, own) ==
    [k \in DOMAIN s |-> IF k = "enabledOn" THEN EnabledOnObject(s, def, own) ELSE s[k]]

\* Object.assign({}, DEFAULT_SETTINGS, await this.loadData()): a shallow merge. A
\* field of the blob replaces the default whole, nested object included; a field the
\* blob omits keeps the default, and for enabledOn that is a reference to the one
\* DEFAULT_SETTINGS.enabledOn object.
MergedFields(v, blob) == Fields(v) \cup DOMAIN blob

loadSettings(v, blob) ==
    [k \in MergedFields(v, blob) |->
        IF k = "enabledOn"
            THEN (IF k \in DOMAIN blob THEN "OWN" ELSE "DEF")
            ELSE (IF k \in DOMAIN blob THEN blob[k] ELSE DEFAULT_SETTINGS(v)[k])]

loadedEnabledOn(blob, own) ==
    IF "enabledOn" \in DOMAIN blob THEN blob["enabledOn"] ELSE own

\* A property read: undefined (a key the object does not hold) is falsy.
Truthy(obj, k) == k \in DOMAIN obj /\ obj[k]

\* get isEnabledOnPlatform (v1_1, v1_1b); Platform.isDesktop and Platform.isMobile
\* partition the platforms, so the final else is never taken.
isEnabledOnPlatform(s, def, own, pf) ==
    IF pf = "desktop"
        THEN Truthy(EnabledOnObject(s, def, own), "desktop")
        ELSE Truthy(EnabledOnObject(s, def, own), "mobile")

isPhone(pf) == pf = "phone"

\* ------------------------------------------------------------ the workspace
\* A leaf is [kind, mode, file, group]:
\*   kind  "markdown"  a MarkdownView whose view state type is "markdown"
\*         "mdother"   a MarkdownView instance whose view state type is not "markdown"
\*         "other"     a view of another class showing a file (an image)
\*         "empty"     a leaf with no file (a new tab, or a pane whose openFile is
\*                     still in flight)
\*   mode  "source" or "preview" for the MarkdownViews, "none" (undefined) otherwise
\*   file  NoFile, a note of NoteFiles, or ImageFile (a file that is not markdown)
\*   group 0 for none, else the group setGroupMember put the leaf in
\*   by    "host" for a pane the user or the host made, "plugin" for a pane that
\*         the plugin's createLeafBySplit call made
\* Leaves are referred to by their position in the split order; position 0 is "no
\* leaf" (null, or a leaf that was detached).

NoFile == "null"
NoteFiles == {"a.md", "b.md"}
ImageFile == "c.png"
MdOtherFile == "d.mdx"

\* A faulty Toggle: the test is written the wrong way round, so the mode is kept.
Toggle_Kept(mode) == IF mode = "preview" THEN "preview" ELSE "source"

Toggle(mode) == IF mode = "preview" THEN "source" ELSE "preview"

EmptyLeaf == [kind |-> "empty", mode |-> "none", file |-> NoFile, group |-> 0, by |-> "host"]

\* The leaf createLeafBySplit returns to the plugin.
SplitLeaf == [EmptyLeaf EXCEPT !.by = "plugin"]

IsMarkdownView(l) == l.kind \in {"markdown", "mdother"}

\* workspace.getLeavesOfType("markdown").length
MarkdownCount(ls) == Cardinality({i \in 1..Len(ls) : ls[i].kind = "markdown"})

InsertAt(ls, p, l) == SubSeq(ls, 1, p - 1) \o <<l>> \o SubSeq(ls, p, Len(ls))
RemoveAt(ls, p) == SubSeq(ls, 1, p - 1) \o SubSeq(ls, p + 1, Len(ls))

\* What a reference to position r becomes when a leaf is inserted at p / removed at p.
RefAfterInsert(r, p) == IF r # 0 /\ r >= p THEN r + 1 ELSE r
RefAfterRemove(r, p) == IF r = p THEN 0 ELSE IF r > p THEN r - 1 ELSE r

PendAfterInsert(pd, p) ==
    [i \in 1..Len(pd) |->
        [pd[i] EXCEPT !.new = RefAfterInsert(@, p), !.orig = RefAfterInsert(@, p)]]
PendAfterRemove(pd, p) ==
    [i \in 1..Len(pd) |->
        [pd[i] EXCEPT !.new = RefAfterRemove(@, p), !.orig = RefAfterRemove(@, p)]]

\* function getRootContainerSize: the host's measure of the main area, an input.
Dims == (DEFAULT_minSize - 1)..(DEFAULT_minSize + MaxDelta)

\* A faulty ResolveDirection: > instead of >=.
ResolveDirection_Strict(dir, w, h) ==
    IF dir = "auto" THEN (IF w > h THEN "vertical" ELSE "horizontal") ELSE dir

\* let direction = this.settings.direction; if (direction === "auto") ...
ResolveDirection(dir, w, h) ==
    IF dir = "auto" THEN (IF w >= h THEN "vertical" ELSE "horizontal") ELSE dir

\* A faulty BigEnough: >= instead of >.
BigEnough_AtLeast(dir, w, h, minSize) == (IF dir = "vertical" THEN w ELSE h) >= minSize

\* (direction === "vertical" ? rootSize.width : rootSize.height) > this.settings.minSize
BigEnough(dir, w, h, minSize) == (IF dir = "vertical" THEN w ELSE h) > minSize

\* const firstPane = this.settings.editorFirst ? "source" : "preview"
firstPane(editorFirst) == IF editorFirst THEN "source" ELSE "preview"

\* A faulty PlaceBefore: the new leaf goes before when its mode is not firstPane.
PlaceBefore_Swapped(auto, toggled, editorFirst) ==
    auto /\ toggled # (IF editorFirst THEN "source" ELSE "preview")

\* The third argument of createLeafBySplit: whether the new leaf goes before the
\* original. The snapshots before v1_2 have no autoSplit parameter (always automatic).
PlaceBefore(auto, toggled, editorFirst) == auto /\ toggled = firstPane(editorFirst)

\* Faulty variants of ShouldLink: the command obeys linkPanes too; the setting is ignored.
ShouldLink_SettingOnly(auto, linkPanes) == linkPanes
ShouldLink_Always(auto, linkPanes) == TRUE

\* if (!autoSplit || this.settings.linkPanes) activeLeaf.setGroupMember(newLeaf)
ShouldLink(auto, linkPanes) == ~auto \/ linkPanes

\* A faulty ShouldFocus: the new leaf is focused after every automatic split.
ShouldFocus_Always(auto, toggled, paneToFocus) == auto

\* if (autoSplit && viewState.state.mode === this.settings.paneToFocus) setActiveLeaf
ShouldFocus(auto, toggled, paneToFocus) == auto /\ toggled = paneToFocus

\* The leaf the plugin calls activeLeaf: workspace.activeLeaf before v1_1b, and
\* getActiveViewOfType(MarkdownView)?.leaf from v1_1b on.
ActiveLeafOf(v, ls, act) ==
    IF AwaitsOpenFile(v)
        THEN (IF act # 0 /\ IsMarkdownView(ls[act]) THEN act ELSE 0)
        ELSE act

\* if (viewState.type !== "markdown") return       (v1_1b, v1_2 only)
TypeAccepted(v, leaf) == AwaitsOpenFile(v) => leaf.kind = "markdown"

\* The view a leaf shows once openFile(file, viewState) has loaded: the file's own
\* view class, in the mode the view state asks for when that class has modes.
KindOfFile(f) ==
    IF f \in NoteFiles THEN "markdown"
    ELSE IF f = MdOtherFile THEN "mdother"
    ELSE IF f = NoFile THEN "empty" ELSE "other"

LoadedLeaf(leaf, f, mode) ==
    [leaf EXCEPT !.kind = KindOfFile(f),
                 !.mode = IF KindOfFile(f) \in {"markdown", "mdother"} THEN mode ELSE "none",
                 !.file = f]

\* leaf.setGroupMember(other): other joins leaf's group, which is created if leaf
\* has none. A detached leaf (position 0) is not part of the workspace.
UsedGroups(ls) == {ls[i].group : i \in 1..Len(ls)} \ {0}
FreshGroup(ls) == CHOOSE g \in 1..(Len(ls) + 1) : g \notin UsedGroups(ls)

setGroupMember(ls, o, n) ==
    LET g == IF o # 0 /\ ls[o].group # 0 THEN ls[o].group ELSE FreshGroup(ls)
    IN [i \in 1..Len(ls) |-> IF i \in {o, n} THEN [ls[i] EXCEPT !.group = g] ELSE ls[i]]

\* workspace.setActiveLeaf(leaf, ...): a detached leaf cannot be made active.
setActiveLeaf(act, n) == IF n # 0 THEN n ELSE act

\* What a step logs when no split was decided.
NoSplitLog ==
    [split |-> FALSE, sizeRead |-> FALSE, w |-> 0, h |-> 0, dir |-> "none",
     toggled |-> "none", before |-> FALSE, orig |-> 0, new |-> 0,
     origMode |-> "none", origKind |-> "none", linked |-> FALSE, focused |-> FALSE]

\* The split itself, from the measure of the main area on: the inline code of the
\* file-open handler (v1_0, v1_1, v1_1b) and splitActiveFile (v1_2), up to the
\* openFile call. p is activeLeaf (not null). Before v1_1b openFile is not awaited,
\* so setGroupMember and setActiveLeaf run in the same step; from v1_1b on they run
\* when openFile has completed (OpenFileDone).
SplitFrom(v, s, ls, act, pd, p, file, auto, w, h, cont) ==
    LET dir == ResolveDirection(s["direction"], w, h)
        toggled == Toggle(ls[p].mode)
        before == PlaceBefore(auto, toggled, s["editorFirst"])
        at == IF before THEN p ELSE p + 1
        o == IF before THEN p + 1 ELSE p
        ls1 == InsertAt(ls, at, SplitLeaf)
        act1 == RefAfterInsert(act, at)
        entry == [new |-> at, orig |-> o, file |-> file, mode |-> toggled,
                  auto |-> auto, cont |-> IF AwaitsOpenFile(v) THEN cont ELSE "none"]
        pd1 == Append(PendAfterInsert(pd, at), entry)
        link == ~AwaitsOpenFile(v) /\ ShouldLink(auto, s["linkPanes"])
        focus == ~AwaitsOpenFile(v) /\ ShouldFocus(auto, toggled, s["paneToFocus"])
        base == [NoSplitLog EXCEPT !.sizeRead = TRUE, !.w = w, !.h = h, !.dir = dir,
                                   !.origMode = ls[p].mode, !.origKind = ls[p].kind]
    IN  IF ~BigEnough(dir, w, h, s["minSize"])
            THEN [status |-> "nosplit", leaves |-> ls, active |-> act, pending |-> pd,
                  log |-> base]
        ELSE IF ~TypeAccepted(v, ls[p])
            THEN [status |-> "returned", leaves |-> ls, active |-> act, pending |-> pd,
                  log |-> base]
        ELSE [status |-> IF AwaitsOpenFile(v) THEN "suspended" ELSE "finished",
              leaves |-> IF link THEN setGroupMember(ls1, o, at) ELSE ls1,
              active |-> IF focus THEN setActiveLeaf(act1, at) ELSE act1,
              pending |-> pd1,
              log |-> [base EXCEPT !.split = TRUE, !.toggled = toggled,
                                   !.before = before, !.orig = o, !.new = at,
                                   !.linked = link, !.focused = focus]]

\* async splitActiveFile(file, autoSplit = false)                          (v1_2)
splitActiveFile(v, s, ls, act, pd, file, auto, w, h, cont) ==
    LET p == ActiveLeafOf(v, ls, act)
    IN  IF p = 0
            THEN [status |-> "nosplit", leaves |-> ls, active |-> act, pending |-> pd,
                  log |-> NoSplitLog]
            ELSE SplitFrom(v, s, ls, act, pd, p, file, auto, w, h, cont)

\* protected updateHasOpenFiles(): q is whether the host's query succeeded; a throw
\* is caught and the flag keeps its value.
updateHasOpenFiles(flag, ls, q) == IF q THEN MarkdownCount(ls) > 0 ELSE flag

\* A faulty AutoEnabled: the settings are not consulted.
AutoEnabled_Always(v, s, def, own, pf) == TRUE

\* The settings gate of the file-open handler.
AutoEnabled(v, s, def, own, pf) ==
    CASE v = "v1_0" -> TRUE
      [] v \in {"v1_1", "v1_1b"} -> isEnabledOnPlatform(s, def, own, pf)
      [] v = "v1_2" -> s["autoSplit"] /\ ~isPhone(pf)

\* The conjuncts of the handler's condition that are evaluated before the call of
\* getLeavesOfType("markdown") (&& short-circuits), for the snapshots that call it.
BeforeQuery(v, s, def, own, pf, ls, act) ==
    AutoEnabled(v, s, def, own, pf) /\ (v = "v1_1b" => ActiveLeafOf(v, ls, act) # 0)

\* The condition of the file-open handler's if.
AutoGuard(v, s, def, own, pf, flag, ls, act, file) ==
    /\ AutoEnabled(v, s, def, own, pf)
    /\ (v # "v1_2" => ActiveLeafOf(v, ls, act) # 0)
    /\ (AwaitsOpenFile(v) => MarkdownCount(ls) = 1)
    /\ ~flag
    /\ file # NoFile

\* The file-open handler up to its first await (or to its end): qg is whether the
\* query in the condition succeeded. status is
\*   "finished"   ran to the end of the if; updateHasOpenFiles follows
\*   "suspended"  awaiting openFile; the rest runs in OpenFileDone
\*   "returned"   the return of v1_1b's type check: updateHasOpenFiles is skipped
\*   "threw"      the query in the condition threw: the handler's promise rejects
Handler(v, s, def, own, pf, flag, ls, act, pd, file, w, h, qg) ==
    LET idle == [status |-> "finished", leaves |-> ls, active |-> act, pending |-> pd,
                 log |-> NoSplitLog]
    IN  IF AwaitsOpenFile(v) /\ BeforeQuery(v, s, def, own, pf, ls, act) /\ ~qg
            THEN [idle EXCEPT !.status = "threw"]
        ELSE IF ~AutoGuard(v, s, def, own, pf, flag, ls, act, file)
            THEN idle
        ELSE LET r == splitActiveFile(v, s, ls, act, pd, file, TRUE, w, h, "auto")
             IN  [r EXCEPT !.status =
                    IF @ = "nosplit" THEN "finished"
                    ELSE IF @ = "returned" /\ v = "v1_2" THEN "finished"
                    ELSE @]

\* ------------------------------------------------------------------ the log

BaseLog(op) ==
    [op |-> op, status |-> "none", auto |-> FALSE, file |-> NoFile,
     viewsBefore |-> 0, flagBefore |-> FALSE, activeKind |-> "none",
     split |-> FALSE, sizeRead |-> FALSE, w |-> 0, h |-> 0, dir |-> "none",
     toggled |-> "none", before |-> FALSE, orig |-> 0, new |-> 0,
     origMode |-> "none", origKind |-> "none", linked |-> FALSE, focused |-> FALSE,
     rec |-> NoData, refresh |-> "none", text |-> <<>>]

\* What a call of updateHasOpenFiles logs: whether its query succeeded.
Refreshed(q) == IF q THEN "ok" ELSE "failed"

WithSplitLog(base, sl) == [k \in DOMAIN base |-> IF k \in DOMAIN sl THEN sl[k] ELSE base[k]]

KindAt(ls, p) == IF p = 0 THEN "none" ELSE ls[p].kind

\* ------------------------------------------------------------------ actions

\* The host delivers file-open(file) with the workspace at (ls, act, pd); before
\* the event the workspace held `before` markdown views. The handler is registered
\* in the onLayoutReady callback. Ss are the main-area sizes the host may report and
\* Qs the outcomes of its queries (TRUE: the query succeeds); an input is drawn only
\* where the handler reads it.
QueryReached(ls, act) ==
    AwaitsOpenFile(variant)
        /\ BeforeQuery(variant, settings, defEnabledOn, ownEnabledOn, platform, ls, act)

SizeReached(ls, act, file) ==
    AutoGuard(variant, settings, defEnabledOn, ownEnabledOn, platform, hasOpenFiles,
              ls, act, file)

OneOf(S) == {CHOOSE x \in S : TRUE}

Notify(ls, act, pd, file, before, Ss, Qs) ==
    IF phase # "ready"
        THEN /\ leaves' = ls /\ active' = act /\ pending' = pd
             /\ hasOpenFiles' = hasOpenFiles
             /\ last' = BaseLog("host")
        ELSE \E qg \in IF QueryReached(ls, act) THEN Qs ELSE OneOf(Qs),
                sz \in IF SizeReached(ls, act, file) THEN Ss ELSE OneOf(Ss) :
             LET r == Handler(variant, settings, defEnabledOn, ownEnabledOn, platform,
                              hasOpenFiles, ls, act, pd, file, sz[1], sz[2], qg)
             IN  /\ leaves' = r.leaves /\ active' = r.active /\ pending' = r.pending
                 /\ \E qu \in IF r.status = "finished" THEN Qs ELSE OneOf(Qs) :
                       /\ hasOpenFiles' = IF r.status = "finished"
                                             THEN updateHasOpenFiles(hasOpenFiles, r.leaves, qu)
                                             ELSE hasOpenFiles
                       /\ last' = WithSplitLog(
                             [BaseLog("fileopen") EXCEPT !.status = r.status, !.auto = TRUE,
                                 !.file = file, !.viewsBefore = before,
                                 !.flagBefore = hasOpenFiles,
                                 !.activeKind = KindAt(ls, act),
                                 !.refresh = IF r.status = "finished"
                                                THEN Refreshed(qu) ELSE "none"],
                             r.log)

SettingsFrame == UNCHANGED <<variant, platform, settings, defEnabledOn, ownEnabledOn,
                             data, saving, panel>>

\* async onload(): await this.loadSettings(); the command and the settings tab are
\* added, the file-open handler waits for onLayoutReady.
Onload ==
    /\ phase = "constructed"
    /\ phase' = "loaded"
    /\ settings' = loadSettings(variant, data)
    /\ ownEnabledOn' = loadedEnabledOn(data, ownEnabledOn)
    /\ last' = [BaseLog("onload") EXCEPT !.rec = IF last.op = "reload" THEN last.rec ELSE NoData]
    /\ UNCHANGED <<variant, platform, defEnabledOn, data, saving, hasOpenFiles,
                   leaves, active, pending, panel>>

\* this.app.workspace.onLayoutReady(() => { this.updateHasOpenFiles(); registerEvent })
LayoutReady(Qs) ==
    /\ phase = "loaded"
    /\ phase' = "ready"
    /\ \E q \in Qs :
          /\ hasOpenFiles' = updateHasOpenFiles(hasOpenFiles, leaves, q)
          /\ last' = [BaseLog("ready") EXCEPT !.flagBefore = hasOpenFiles,
                                              !.refresh = Refreshed(q)]
    /\ UNCHANGED <<leaves, active, pending>>
    /\ SettingsFrame

\* The user opens file f, in a new pane (which becomes the active one) or in the
\* active pane; the host then delivers file-open(f).
OpenedIn(leaf, f, m) ==
    LoadedLeaf(leaf, f, IF IsMarkdownView(leaf) THEN leaf.mode ELSE m)

UserOpens(Fs, Ms, Ws, Ss, Qs) ==
    /\ phase # "constructed"
    /\ \E f \in Fs, where \in Ws :
          \/ /\ where = "new"
             /\ Len(leaves) < MaxLeaves
             /\ \E m \in IF f = ImageFile THEN OneOf(Ms) ELSE Ms :
                   Notify(Append(leaves, LoadedLeaf(EmptyLeaf, f, m)), Len(leaves) + 1,
                          pending, f, MarkdownCount(leaves), Ss, Qs)
          \/ /\ where = "active"
             /\ active # 0
             /\ leaves[active].file # f
             /\ \E m \in IF f = ImageFile \/ IsMarkdownView(leaves[active])
                            THEN OneOf(Ms) ELSE Ms :
                   Notify([leaves EXCEPT ![active] = OpenedIn(@, f, m)], active,
                          pending, f, MarkdownCount(leaves), Ss, Qs)
    /\ UNCHANGED phase
    /\ SettingsFrame

\* The "Split and link current pane" command, checkCallback(false).       (v1_2)
\* activeEditor?.file is the file of the active markdown editor.
ActiveEditorFile(ls, act) ==
    IF act # 0 /\ IsMarkdownView(ls[act]) THEN ls[act].file ELSE NoFile

\* A faulty CommandAvailable: the phone check is left out.
CommandAvailable_NoPhoneCheck(pf, ls, act) == ActiveEditorFile(ls, act) # NoFile

\* if (Platform.isPhone) return false; if (!file) return false
CommandAvailable(pf, ls, act) == ~isPhone(pf) /\ ActiveEditorFile(ls, act) # NoFile

Command(Ss) ==
    /\ HasCommand(variant)
    /\ phase # "constructed"
    /\ \E sz \in IF CommandAvailable(platform, leaves, active) /\
                      ActiveLeafOf(variant, leaves, active) # 0 THEN Ss ELSE OneOf(Ss) :
          LET w == sz[1]
              h == sz[2]
              file == ActiveEditorFile(leaves, active)
              idle == [status |-> "unavailable", leaves |-> leaves, active |-> active,
                       pending |-> pending, log |-> NoSplitLog]
              r == IF CommandAvailable(platform, leaves, active)
                       THEN splitActiveFile(variant, settings, leaves, active, pending,
                                            file, FALSE, w, h, "manual")
                       ELSE idle
          IN  /\ leaves' = r.leaves /\ active' = r.active /\ pending' = r.pending
              /\ last' = WithSplitLog(
                    [BaseLog("command") EXCEPT !.status = r.status, !.file = file,
                        !.viewsBefore = MarkdownCount(leaves),
                        !.flagBefore = hasOpenFiles,
                        !.activeKind = KindAt(leaves, active)],
                    r.log)
    /\ UNCHANGED <<phase, hasOpenFiles>>
    /\ SettingsFrame

\* An openFile call completes: the new leaf shows the file in the toggled mode, and
\* the code that awaited it runs on: setGroupMember, setActiveLeaf and, in the
\* file-open handler, updateHasOpenFiles.
OpenFileDone(Qs) ==
    /\ \E i \in 1..Len(pending) :
       \E q \in IF pending[i].cont = "auto" THEN Qs ELSE OneOf(Qs) :
          LET e == pending[i]
              auto == e.auto
              ls1 == IF e.new = 0 THEN leaves
                     ELSE [leaves EXCEPT ![e.new] = LoadedLeaf(@, e.file, e.mode)]
              link == e.cont # "none" /\ ShouldLink(auto, settings["linkPanes"])
              focus == e.cont # "none" /\ ShouldFocus(auto, e.mode, settings["paneToFocus"])
              ls2 == IF link THEN setGroupMember(ls1, e.orig, e.new) ELSE ls1
          IN  /\ leaves' = ls2
              /\ active' = IF focus THEN setActiveLeaf(active, e.new) ELSE active
              /\ pending' = RemoveAt(pending, i)
              /\ hasOpenFiles' = IF e.cont = "auto"
                                     THEN updateHasOpenFiles(hasOpenFiles, ls2, q)
                                     ELSE hasOpenFiles
              /\ last' = [BaseLog("done") EXCEPT !.status = e.cont, !.auto = auto,
                            !.file = e.file, !.toggled = e.mode, !.orig = e.orig,
                            !.new = e.new, !.linked = link, !.focused = focus,
                            !.flagBefore = hasOpenFiles,
                            !.activeKind = KindAt(leaves, active),
                            !.refresh = IF e.cont = "auto" THEN Refreshed(q) ELSE "none"]
    /\ UNCHANGED phase
    /\ SettingsFrame

\* The user makes another pane the active one; the host delivers file-open with
\* that pane's file (null for a pane that shows no file).
UserFocuses(Ss, Qs) ==
    /\ phase # "constructed"
    /\ \E p \in 1..Len(leaves) :
          /\ p # active
          /\ Notify(leaves, p, pending, leaves[p].file, MarkdownCount(leaves), Ss, Qs)
    /\ UNCHANGED phase
    /\ SettingsFrame

\* The user closes a pane. Closing the active pane makes another pane (or none) the
\* active one, and the host delivers file-open with its file or null; closing
\* another pane delivers nothing.
UserCloses(Ss, Qs) ==
    /\ phase # "constructed"
    /\ \E p \in 1..Len(leaves) :
          LET ls1 == RemoveAt(leaves, p)
              pd1 == PendAfterRemove(pending, p)
          IN  IF p = active
                  THEN \E a \in 0..Len(ls1) :
                          /\ (a = 0) = (Len(ls1) = 0)
                          /\ Notify(ls1, a, pd1, IF a = 0 THEN NoFile ELSE ls1[a].file,
                                    MarkdownCount(leaves), Ss, Qs)
                  ELSE /\ leaves' = ls1
                       /\ active' = RefAfterRemove(active, p)
                       /\ pending' = pd1
                       /\ last' = BaseLog("host")
                       /\ UNCHANGED hasOpenFiles
    /\ UNCHANGED phase
    /\ SettingsFrame

\* A pane is opened without becoming the active one (openFile with active: false,
\* a restored layout, a new empty tab): no file-open is delivered.
BackgroundOpen(Fs, Ms) ==
    /\ phase # "constructed"
    /\ Len(leaves) < MaxLeaves
    /\ \E f \in Fs \cup {NoFile} :
          \E m \in IF KindOfFile(f) \in {"markdown", "mdother"} THEN Ms ELSE OneOf(Ms) :
             leaves' = Append(leaves, LoadedLeaf(EmptyLeaf, f, m))
    /\ last' = BaseLog("host")
    /\ UNCHANGED <<phase, hasOpenFiles, active, pending>>
    /\ SettingsFrame

\* async saveSettings(): await this.saveData(this.settings). The record is
\* serialised when saveData is called; the write completes later (SaveDone).
Serialize(s, def, own) == SettingsValue(s, def, own)

saveSettings(q, s, def, own) ==
    Append(q, [blob |-> Serialize(s, def, own), rec |-> SettingsValue(s, def, own)])

SaveSettings ==
    /\ phase # "constructed"
    /\ Len(saving) < MaxSaving
    /\ saving' = saveSettings(saving, settings, defEnabledOn, ownEnabledOn)
    /\ last' = BaseLog("save")
    /\ UNCHANGED <<variant, platform, phase, settings, defEnabledOn, ownEnabledOn, data,
                   hasOpenFiles, leaves, active, pending, panel>>

\* The host has written the blob of one saveData call to data.json. Each onChange
\* awaits only its own call, so nothing in the plugin orders two calls in flight:
\* the writes to the one file complete in either order.
SaveDone ==
    /\ \E i \in 1..Len(saving) :
          /\ data' = saving[i].blob
          /\ saving' = RemoveAt(saving, i)
          /\ last' = [BaseLog("saved") EXCEPT !.rec = saving[i].rec]
    /\ UNCHANGED <<variant, platform, phase, settings, defEnabledOn, ownEnabledOn,
                   hasOpenFiles, leaves, active, pending, panel>>

\* The plugin is disabled and enabled again, or the application restarted: main.js
\* is evaluated anew and a new plugin object constructed; data.json and the
\* workspace stay.
Reload ==
    /\ phase # "constructed"
    /\ saving = <<>>
    /\ phase' = "constructed"
    /\ settings' = NoData
    /\ defEnabledOn' = DEFAULT_enabledOn
    /\ ownEnabledOn' = NoData
    /\ hasOpenFiles' = FALSE
    /\ pending' = <<>>
    /\ panel' = "closed"
    /\ last' = [BaseLog("reload") EXCEPT !.rec = IF last.op = "saved" THEN last.rec ELSE NoData]
    /\ UNCHANGED <<variant, platform, data, saving, leaves, active>>

\* ------------------------------------------------------- the settings tab
\* Number.parseInt(value) on the text of the field, a sequence of characters:
\* leading white space is skipped, then an optional sign, then the longest run of
\* decimal digits; with no digit the result is NaN (ok = FALSE).
Digits == <<"0", "1", "2", "3", "4", "5", "6", "7", "8", "9">>
IsDigit(c) == \E d \in 1..10 : Digits[d] = c
DigitValue(c) == (CHOOSE d \in 1..10 : Digits[d] = c) - 1

RECURSIVE SkipSpaces(_)
SkipSpaces(t) == IF t # <<>> /\ Head(t) = " " THEN SkipSpaces(Tail(t)) ELSE t

RECURSIVE DigitRun(_, _, _)
\* [n |-> digits read, val |-> their value], reading t with acc so far
DigitRun(t, n, acc) ==
    IF t # <<>> /\ IsDigit(Head(t))
        THEN DigitRun(Tail(t), n + 1, acc * 10 + DigitValue(Head(t)))
        ELSE [n |-> n, val |-> acc]

parseInt(text) ==
    LET t == SkipSpaces(text)
        neg == t # <<>> /\ Head(t) = "-"
        body == IF t # <<>> /\ Head(t) \in {"-", "+"} THEN Tail(t) ELSE t
        run == DigitRun(body, 0, 0)
    IN  [ok |-> run.n > 0, val |-> IF neg THEN 0 - run.val ELSE run.val]

\* this.plugin.settings.minSize = Number.isInteger(valueAsNumber) ? valueAsNumber
\*                                                                 : this.plugin.settings.minSize
NewMinSize(old, text) == IF parseInt(text).ok THEN parseInt(text).val ELSE old

\* What the user may type into the Minimum Size field.
MinSizeInputs ==
    { <<>>,
      <<"1", "0", "0", "0">>,
      <<"1", "0", "0", "1">>,
      <<"a", "b", "c">>,
      <<"1", "0", "0", "1", ".", "5">> }

\* display(): on a phone v1_2 renders the notice and returns; otherwise the
\* controls are rendered.
Rendered(v, pf) == IF v = "v1_2" /\ isPhone(pf) THEN "notice" ELSE "controls"

Display ==
    /\ phase # "constructed"
    /\ panel = "closed"
    /\ panel' = Rendered(variant, platform)
    /\ last' = BaseLog("display")
    /\ UNCHANGED <<variant, platform, phase, settings, defEnabledOn, ownEnabledOn, data,
                   saving, hasOpenFiles, leaves, active, pending>>

ClosePanel ==
    /\ panel # "closed"
    /\ panel' = "closed"
    /\ last' = BaseLog("close")
    /\ UNCHANGED <<variant, platform, phase, settings, defEnabledOn, ownEnabledOn, data,
                   saving, hasOpenFiles, leaves, active, pending>>

\* The values a control can hand to its onChange: a toggle its new state, a
\* dropdown an option other than the one shown.
ControlValues(k, cur) ==
    CASE k \in {"autoSplit", "editorFirst", "linkPanes"} -> {~cur}
      [] k = "direction" -> Directions \ {cur}
      [] k = "paneToFocus" -> PaneTypes \ {cur}

\* onChange of a toggle or dropdown of a flat field: the field is set and
\* saveSettings is called.
ChangeSetting(Ks) ==
    /\ panel = "controls"
    /\ Len(saving) < MaxSaving
    /\ \E k \in Ks \cap DOMAIN settings :
          \E val \in ControlValues(k, settings[k]) :
             LET s1 == [settings EXCEPT ![k] = val]
             IN  /\ settings' = s1
                 /\ saving' = saveSettings(saving, s1, defEnabledOn, ownEnabledOn)
    /\ last' = BaseLog("change")
    /\ UNCHANGED <<variant, platform, phase, defEnabledOn, ownEnabledOn, data,
                   hasOpenFiles, leaves, active, pending, panel>>

\* onChange of the Minimum Size text field.
ChangeMinSize ==
    /\ panel = "controls"
    /\ Len(saving) < MaxSaving
    /\ \E text \in MinSizeInputs :
          LET s1 == [settings EXCEPT !["minSize"] = NewMinSize(@, text)]
          IN  /\ settings' = s1
              /\ saving' = saveSettings(saving, s1, defEnabledOn, ownEnabledOn)
              /\ last' = [BaseLog("minsize") EXCEPT !.text = text]
    /\ UNCHANGED <<variant, platform, phase, defEnabledOn, ownEnabledOn, data,
                   hasOpenFiles, leaves, active, pending, panel>>

\* onChange of the Desktop / Mobile toggles (v1_1, v1_1b):
\* this.plugin.settings.enabledOn.desktop = value writes into the object that
\* settings.enabledOn references.
WithKey(obj, n, val) == [k \in DOMAIN obj \cup {n} |-> IF k = n THEN val ELSE obj[k]]

ChangeEnabledOn ==
    /\ panel = "controls"
    /\ Len(saving) < MaxSaving
    /\ "enabledOn" \in DOMAIN settings
    /\ \E n \in NestedKeys :
          LET cur == EnabledOnObject(settings, defEnabledOn, ownEnabledOn)
              new == WithKey(cur, n, ~Truthy(cur, n))
              def1 == IF settings["enabledOn"] = "DEF" THEN new ELSE defEnabledOn
              own1 == IF settings["enabledOn"] = "DEF" THEN ownEnabledOn ELSE new
          IN  /\ defEnabledOn' = def1
              /\ ownEnabledOn' = own1
              /\ saving' = saveSettings(saving, settings, def1, own1)
    /\ last' = BaseLog("change")
    /\ UNCHANGED <<variant, platform, phase, settings, data, hasOpenFiles, leaves,
                   active, pending, panel>>

\* --------------------------------------------------------- specifications

\* The step leaves the workspace within the bounds.
Within == Len(leaves') <= MaxLeaves /\ Len(pending') <= MaxPending

InitCommon ==
    /\ variant \in Variants
    /\ platform \in Platforms
    /\ phase = "constructed"
    /\ settings = NoData
    /\ defEnabledOn = DEFAULT_enabledOn
    /\ ownEnabledOn = NoData
    /\ saving = <<>>
    /\ hasOpenFiles = FALSE
    /\ leaves = <<>>
    /\ active = 0
    /\ pending = <<>>
    /\ panel = "closed"
    /\ last = BaseLog("init")

\* The split procedure under every settings record: the persisted blob is any
\* complete record (or none), a note or another file is opened into the empty
\* workspace, the command is used.
FullBlobs(v) == Records(v, [NestedKeys -> BOOLEAN])

InitSplit == InitCommon /\ data \in FullBlobs(variant) \cup {NoData}

SplitFiles == {"a.md", ImageFile, MdOtherFile}

NextSplit ==
    \/ Onload
    \/ LayoutReady({TRUE})
    \/ (Len(leaves) = 0 /\ UserOpens(SplitFiles, PaneTypes, {"new"}, Dims \X Dims, {TRUE}) /\ Within)
    \/ (Len(leaves) = 1 /\ Command(Dims \X Dims) /\ Within)
    \/ OpenFileDone({TRUE})

SpecSplit == InitSplit /\ [][NextSplit]_vars

\* ------------------------------------------------------------------ claims

AutoStep == last.op = "fileopen"
ManualStep == last.op = "command"
SplitDone == last.op = "done" /\ last.new # 0 /\ last.orig # 0
OrigIsNote == SplitDone /\ IsMarkdownView(leaves[last.orig])

\* The dimension the code is to compare: the width when the direction in effect is
\* vertical, the height when it is horizontal.
ComparedDimension ==
    LET d == IF settings["direction"] = "auto"
                THEN (IF last.w >= last.h THEN "vertical" ELSE "horizontal")
                ELSE settings["direction"]
    IN  IF d = "vertical" THEN last.w ELSE last.h

AutoPreconditions ==
    /\ AutoStep
    /\ last.status # "threw"
    /\ last.file # NoFile
    /\ last.activeKind = "markdown"
    /\ AutoEnabled(variant, settings, defEnabledOn, ownEnabledOn, platform)
    /\ last.viewsBefore = 0
    /\ ~last.flagBefore

ManualPreconditions ==
    /\ ManualStep
    /\ last.status # "unavailable"
    /\ last.activeKind = "markdown"

C4_ComplementaryModes ==
    /\ (last.split /\ last.origKind \in {"markdown", "mdother"})
          => leaves[last.orig].mode = last.origMode
    /\ OrigIsNote
          => /\ leaves[last.new].file = leaves[last.orig].file
             /\ {leaves[last.new].mode, leaves[last.orig].mode} = PaneTypes

C4_Witness ==
    /\ OrigIsNote
    /\ leaves[last.orig].mode = "preview"
    /\ leaves[last.new].mode = "source"

LeadingPane == IF last.new < last.orig THEN last.new ELSE last.orig

EditorFirstHonoured ==
    leaves[LeadingPane].mode = IF settings["editorFirst"] THEN "source" ELSE "preview"

\* C5 as stated: after every split of a markdown view, automatic or manual, the
\* leading pane is the editor when editorFirst is set and the preview otherwise.
C5_EveryOrder == OrigIsNote => EditorFirstHonoured

\* C5 as amended: after every automatic split of a markdown view, the leading pane
\* is the editor when editorFirst is set and the preview otherwise.
C5_AutomaticOrder == (OrigIsNote /\ last.auto) => EditorFirstHonoured

C5_Witness ==
    /\ OrigIsNote
    /\ last.auto
    /\ ~settings["editorFirst"]
    /\ last.new < last.orig
    /\ leaves[last.new].mode = "preview"

\* C6: after an automatic split of a markdown view the new pane is the active one
\* exactly when its mode equals settings.paneToFocus, the original pane is the
\* active one otherwise, and so the active pane is the one in the paneToFocus mode.
C6_FocusFollowsSetting ==
    (OrigIsNote /\ last.auto) =>
        /\ (active = last.new <=> leaves[last.new].mode = settings["paneToFocus"])
        /\ (active # last.new => active = last.orig)
        /\ leaves[active].mode = settings["paneToFocus"]

C6_Witness ==
    /\ OrigIsNote
    /\ last.auto
    /\ settings["paneToFocus"] = "preview"
    /\ active = last.new

\* C7: a split made by the command puts the new pane after the original, registers
\* the two panes as one group and leaves the original pane active, whatever
\* editorFirst, paneToFocus and linkPanes are.
Grouped(a, b) == leaves[a].group # 0 /\ leaves[a].group = leaves[b].group

C7_ManualIgnoresSettings ==
    /\ (ManualStep /\ last.split) => (last.new = last.orig + 1 /\ active = last.orig)
    /\ (SplitDone /\ ~last.auto)
          => /\ last.new = last.orig + 1
             /\ Grouped(last.orig, last.new)
             /\ active = last.orig

C7_Witness ==
    /\ SplitDone
    /\ ~last.auto
    /\ ~settings["linkPanes"]
    /\ ~settings["editorFirst"]
    /\ settings["paneToFocus"] = leaves[last.new].mode
    /\ Grouped(last.orig, last.new)

\* C8 as stated: after every split, automatic or manual, the two panes are one group
\* if and only if settings.linkPanes is set.
C8_EveryLink == SplitDone => (Grouped(last.orig, last.new) <=> settings["linkPanes"])

\* C8 as amended: after every automatic split there are two panes, and they are one
\* group if and only if settings.linkPanes is set.
C8_AutomaticLink ==
    (SplitDone /\ last.auto) =>
        /\ Len(leaves) = 2
        /\ (Grouped(last.orig, last.new) <=> settings["linkPanes"])

C8_Witness ==
    /\ SplitDone
    /\ last.auto
    /\ ~settings["linkPanes"]
    /\ Len(leaves) = 2
    /\ leaves[last.new].group = 0

\* The life of the plugin in a workspace: the persisted blob is absent or one of a
\* few, and the host opens, focuses and closes panes, with queries that may fail.
SampleBlobs(v) == {NoData}

Init == InitCommon /\ platform = "desktop" /\ data \in SampleBlobs(variant)

AllFiles == NoteFiles \cup {MdOtherFile}

\* A main area too small to split under the default minSize, and one large enough.
TwoSizes == {<<DEFAULT_minSize, DEFAULT_minSize>>,
             <<DEFAULT_minSize + 1, DEFAULT_minSize + 1>>}

Next ==
    \/ Onload
    \/ LayoutReady(BOOLEAN)
    \/ (UserOpens(AllFiles, {"source"}, {"new", "active"}, TwoSizes, BOOLEAN) /\ Within)
    \/ (UserFocuses(TwoSizes, BOOLEAN) /\ Within)
    \/ (UserCloses(TwoSizes, BOOLEAN) /\ Within)
    \/ BackgroundOpen(AllFiles, {"source"})
    \/ (Command(TwoSizes) /\ Within)
    \/ OpenFileDone(BOOLEAN)

Spec == Init /\ [][Next]_vars

\* C1: the file-open handler splits only if no markdown view was open immediately
\* before the file-open event that triggered it.
C1_SplitOnlyIntoEmpty == (AutoStep /\ last.split) => last.viewsBefore = 0

\* Loading and saving the settings: the persisted blob is any blob over the
\* variant's fields, any subset of fields (nested ones included) omitted.
InitLoad == InitCommon /\ platform = "desktop" /\ data \in Blobs(variant)

NextLoad ==
    \/ Onload
    \/ SaveSettings
    \/ SaveDone
    \/ Reload

SpecLoad == InitLoad /\ [][NextLoad]_vars

Loaded == last.op = "onload"

\* The value a field (or a nested field) of DEFAULT_SETTINGS has in the source.
DefaultOf(k) ==
    CASE k = "minSize" -> 1000
      [] k = "direction" -> "auto"
      [] k \in {"editorFirst", "linkPanes", "autoSplit", "desktop", "mobile"} -> TRUE
      [] k = "paneToFocus" -> "source"

\* The first half of C9: a record that was saved and is loaded again is the same
\* record, nested fields included.
C9_RoundTrip ==
    (Loaded /\ last.rec # NoData)
        => SettingsValue(settings, defEnabledOn, ownEnabledOn) = last.rec

\* The second half of C9: every field the blob omits, nested ones included, has its
\* DEFAULT_SETTINGS value after loadSettings.
C9_OmittedAreDefault ==
    Loaded =>
        /\ \A k \in (Fields(variant) \ {"enabledOn"}) \ DOMAIN data :
              settings[k] = DefaultOf(k)
        /\ HasEnabledOn(variant) =>
              \A n \in NestedKeys :
                 ("enabledOn" \notin DOMAIN data \/ n \notin DOMAIN data["enabledOn"])
                    => LET o == EnabledOnObject(settings, defEnabledOn, ownEnabledOn)
                       IN  n \in DOMAIN o /\ o[n] = DefaultOf(n)

\* C9: saving and loading again yields the same record, and loading a blob that
\* omits fields, nested ones included, gives every omitted field its default.
C9_RoundTripAndDefaults == C9_RoundTrip /\ C9_OmittedAreDefault

\* The settings tab next to the handler and the command: the plugin starts from no
\* persisted data, a note is opened into the empty workspace, the command is used,
\* and the user changes settings in the tab (here before the note is opened, so
\* that the handler and the command run under every combination of settings, and
\* one change at a time).
InitPanel == InitCommon /\ data = NoData

FlatControls == {"autoSplit", "direction", "editorFirst", "paneToFocus", "linkPanes"}

OneSize == {<<DEFAULT_minSize + 1, DEFAULT_minSize + 1>>}

NextPanel ==
    \/ Onload
    \/ LayoutReady({TRUE})
    \/ (Len(leaves) = 0 /\ UserOpens({"a.md"}, {"source"}, {"new"}, OneSize, {TRUE}) /\ Within)
    \/ (Len(leaves) = 1 /\ Command(OneSize) /\ Within)
    \/ OpenFileDone({TRUE})
    \/ (Len(leaves) <= 1 /\ Display)
    \/ (Len(leaves) = 0 /\ ClosePanel)
    \/ (phase = "ready" /\ Len(leaves) = 0 /\ saving = <<>> /\ ChangeSetting(FlatControls))
    \/ (phase = "ready" /\ Len(leaves) = 0 /\ saving = <<>> /\ ChangeMinSize)
    \/ (phase = "ready" /\ Len(leaves) = 0 /\ saving = <<>> /\ ChangeEnabledOn)
    \/ SaveDone

SpecPanel == InitPanel /\ [][NextPanel]_vars

\* Nothing has been split, and the settings are still the loaded ones with no
\* write issued.
NeverSplit == Len(leaves) <= 1 /\ pending = <<>> /\ ~last.split
SettingsUntouched ==
    /\ saving = <<>>
    /\ phase # "constructed" =>
          /\ settings = loadSettings(variant, data)
          /\ defEnabledOn = DEFAULT_enabledOn
PhoneInert ==
    /\ NeverSplit
    /\ ManualStep => last.status = "unavailable"
    /\ panel # "controls"
    /\ SettingsUntouched

\* C10 as stated, over every snapshot: on a phone the command is unavailable,
\* nothing ever splits, and the settings tab shows no control, so no setting
\* changes.
C10_PhoneInertEverywhere == isPhone(platform) => PhoneInert

\* C10, amended: in the snapshot that has the command and the phone check (v1_2),
\* on a phone the command reports itself unavailable and splits nothing, no
\* file-open notification splits, and the settings tab renders only the notice,
\* so the settings stay as loaded and nothing is written.
C10_PhoneInert == (variant = "v1_2" /\ isPhone(platform)) => PhoneInert

\* On a phone in v1_2 the tab shows the notice and the command was invoked on
\* an open note and declined.
C10_Witness ==
    /\ variant = "v1_2" /\ isPhone(platform)
    /\ panel = "notice"
    /\ ManualStep /\ last.status = "unavailable"
    /\ Len(leaves) = 1 /\ IsMarkdownView(leaves[1])

\* Automatic splitting is switched off in the settings for the platform in use: the
\* platform's enabledOn entry is false (v1_1, v1_1b), or autoSplit is false (v1_2).
SwitchedOff ==
    /\ phase # "constructed"
    /\ \/ /\ HasEnabledOn(variant)
          /\ LET o == EnabledOnObject(settings, defEnabledOn, ownEnabledOn)
                 n == IF platform = "desktop" THEN "desktop" ELSE "mobile"
             IN  n \in DOMAIN o /\ o[n] = FALSE
       \/ /\ HasAutoSplit(variant)
          /\ settings["autoSplit"] = FALSE

NoAutomaticSplit ==
    /\ ~(last.auto /\ (last.split \/ last.op = "done"))
    /\ \A i \in 1..Len(pending) : ~pending[i].auto

\* C11: while automatic splitting is switched off for the platform in use, no
\* file-open notification causes a split; in v1_2 the command, used on a markdown
\* view in a main area larger than minSize, still splits while autoSplit is false.
C11_SwitchedOffNeverSplits ==
    /\ SwitchedOff => NoAutomaticSplit
    /\ (SwitchedOff /\ ManualPreconditions /\ ComparedDimension > settings["minSize"])
          => last.split

\* With autoSplit false the note opened into the empty workspace was not split,
\* and the command then split it.
C11_Witness ==
    /\ SwitchedOff
    /\ variant = "v1_2"
    /\ ManualStep
    /\ last.split
    /\ last.viewsBefore = 1
    /\ Len(leaves) = 2

\* The life of the plugin in a workspace whose queries all succeed: notes, a file
\* whose MarkdownView is not of type "markdown" and an image are opened in new,
\* active or background panes, panes are focused and closed.
FlagFiles == {"a.md", MdOtherFile, ImageFile}

NextFlag ==
    \/ Onload
    \/ LayoutReady({TRUE})
    \/ (UserOpens(FlagFiles, {"source"}, {"new", "active"}, TwoSizes, {TRUE}) /\ Within)
    \/ (UserFocuses(TwoSizes, {TRUE}) /\ Within)
    \/ (UserCloses(TwoSizes, {TRUE}) /\ Within)
    \/ BackgroundOpen(FlagFiles, {"source"})
    \/ (Command(TwoSizes) /\ Within)
    \/ OpenFileDone({TRUE})

SpecFlag == Init /\ [][NextFlag]_vars

\* A file-open notification has been handled to its end: the handler ran through or
\* returned without suspending, or its continuation ran after openFile completed.
HandledThrough == (AutoStep /\ last.status = "finished") \/ (last.op = "done" /\ last.status = "auto")
HandledByReturn == AutoStep /\ last.status = "returned"

FlagIsFresh == hasOpenFiles = (MarkdownCount(leaves) > 0)

\* C12: once a file-open notification has been handled, whatever branch the handler
\* took, hasOpenFiles equals (markdown views open > 0), the host's queries succeeding.
C12_FlagRefreshed == (HandledThrough \/ HandledByReturn) => FlagIsFresh

\* The part of C12 that the code keeps: every handler run that reaches its last
\* statement leaves the flag fresh.
C12_FlagRefreshedAtEnd == HandledThrough => FlagIsFresh

\* The query of the last step's updateHasOpenFiles call threw.
RefreshFailed == last.refresh = "failed"

\* The failure is swallowed: the step that called updateHasOpenFiles (the handler,
\* its continuation, the layout-ready callback) ended without an error, and the flag
\* has the value it had before the call.
FailureSwallowed == last.status # "threw" /\ hasOpenFiles = last.flagBefore

\* A further file-open, for a note shown in the active pane of the workspace as it
\* stands, would split although a markdown view is open.
LaterSplitOnOpenNote ==
    /\ MarkdownCount(leaves) > 0
    /\ \E f \in NoteFiles, sz \in TwoSizes :
          Handler(variant, settings, defEnabledOn, ownEnabledOn, platform, hasOpenFiles,
                  leaves, active, pending, f, sz[1], sz[2], TRUE).log.split

\* C13: when the query inside updateHasOpenFiles throws, no error leaves the handler
\* or the layout-ready callback, hasOpenFiles keeps its value, and the state left
\* behind does not let a later file-open split a workspace that has a note open.
C13_FailureLeavesNoStaleState ==
    RefreshFailed => (FailureSwallowed /\ ~LaterSplitOnOpenNote)

\* The part of C13 that the code keeps: the failure is swallowed and the flag kept.
C13_FailureSwallowed == RefreshFailed => FailureSwallowed

\* The step just taken was the handler or the command with a precondition of the
\* split missing: no file, no active markdown view, or an active MarkdownView
\* whose view state type is not "markdown".
PreconditionMissing ==
    /\ AutoStep \/ ManualStep
    /\ last.file = NoFile \/ last.activeKind # "markdown"

SilentNoOp ==
    /\ ~last.split
    /\ last.new = 0
    /\ ~last.linked
    /\ ~last.focused
    /\ last.status # "threw"

\* What the step may have done to the workspace: no openFile was started, and the
\* command (which no host event accompanies) left panes and active pane alone.
NoOpStep ==
    /\ SilentNoOp'
    /\ Len(pending') = Len(pending)
    /\ ManualStep' => (leaves' = leaves /\ active' = active)

\* C14: a handler or command step with a precondition missing creates no pane,
\* opens no file, registers no group, leaves the active pane alone and raises no
\* error.
C14_MissingPreconditionNoOp == [][PreconditionMissing' => NoOpStep]_vars

\* The same for the snapshots that look at the active view's type (v1_1b, v1_2).
C14_NoOpWhereTypeChecked ==
    [][(AwaitsOpenFile(variant) /\ PreconditionMissing') => NoOpStep]_vars

\* A text that is an integer: an optional sign, then digits and nothing else.
Unsigned(t) == IF t # <<>> /\ Head(t) \in {"-", "+"} THEN Tail(t) ELSE t
IsIntegerText(t) ==
    /\ Unsigned(t) # <<>>
    /\ \A i \in 1..Len(Unsigned(t)) : IsDigit(Unsigned(t)[i])

RECURSIVE DecimalValue(_)
DecimalValue(t) ==
    IF t = <<>> THEN 0 ELSE DecimalValue(SubSeq(t, 1, Len(t) - 1)) * 10 + DigitValue(t[Len(t)])

IntegerOf(t) ==
    IF t # <<>> /\ Head(t) = "-" THEN 0 - DecimalValue(Unsigned(t)) ELSE DecimalValue(Unsigned(t))

MinSizeTyped == last.op = "minsize"

\* C15: a text typed into the Minimum Size field that is not an integer leaves
\* settings.minSize as it was, a text that is an integer makes minSize that integer,
\* and minSize is an integer throughout.
C15_MalformedRejected ==
    [][MinSizeTyped' =>
          /\ settings'["minSize"] \in Int
          /\ settings'["minSize"] = IF IsIntegerText(last'.text)
                                       THEN IntegerOf(last'.text)
                                       ELSE settings["minSize"]]_vars

\* The part of C15 that the code keeps: a text that does not start with an integer
\* is rejected, an integer is taken as it is, and minSize is an integer throughout.
StartsWithInteger(t) == Unsigned(t) # <<>> /\ IsDigit(Head(Unsigned(t)))

C15_NotANumberRejected ==
    [][MinSizeTyped' =>
          /\ settings'["minSize"] \in Int
          /\ IsIntegerText(last'.text) => settings'["minSize"] = IntegerOf(last'.text)
          /\ ~StartsWithInteger(last'.text) => settings'["minSize"] = settings["minSize"]]_vars

\* The settings tab alone with writes in flight: the user changes controls while
\* earlier writes have not completed.
SaveControls == {"direction", "linkPanes", "autoSplit"}

NextSave ==
    \/ Onload
    \/ Display
    \/ ClosePanel
    \/ ChangeSetting(SaveControls)
    \/ ChangeMinSize
    \/ ChangeEnabledOn
    \/ SaveDone

SpecSave == Init /\ [][NextSave]_vars

InMemory == SettingsValue(settings, defEnabledOn, ownEnabledOn)

ControlChanged == last.op \in {"change", "minsize"}

\* C16: every change through a control issues a save of the in-memory record as it
\* is after the change, and once every save issued has completed the persisted blob
\* equals the in-memory record, also after changes made while a save was in flight.
C16_ChangesPersisted ==
    /\ ControlChanged => (saving # <<>> /\ saving[Len(saving)].blob = InMemory)
    /\ (last.op = "saved" /\ saving = <<>>) => data = InMemory
    /\ (phase # "constructed" /\ saving = <<>> /\ data # NoData) => data = InMemory

\* The first part of C16, which the code keeps in every order of completion: every
\* change issues a save of the record as it is after the change.
C16_EveryChangeSaves ==
    ControlChanged => (saving # <<>> /\ saving[Len(saving)].blob = InMemory)

\* An invocation of a handler of the plugin is suspended at an await: the file-open
\* handler or the command at await openFile, an onChange at await saveSettings.
AwaitingOpenFile == \E i \in 1..Len(pending) : pending[i].cont # "none"
AwaitingSave == saving # <<>>
InvocationSuspended == AwaitingOpenFile \/ AwaitingSave

\* The step just taken ran the file-open handler or an onChange of the settings tab.
InvocationStarted == last.op \in {"fileopen", "change", "minsize"}

\* C17: while an invocation is suspended at an await, no file-open notification and
\* no settings change is processed.
C17_NoOverlap == [][InvocationSuspended => ~InvocationStarted']_vars


\* ------------------------------------------- C18: one split per emptied workspace

\* The step leaves room for a second split while the pane of a first one is loading.
WithinTwice == Len(leaves') <= MaxLeaves + 1 /\ Len(pending') <= MaxPending + 1

\* Notes are opened into an empty workspace or into the active pane and panes are
\* focused, on a desktop with every host query succeeding. No pane is closed, so the
\* workspace has zero markdown views only before the first note is opened, and the
\* user makes one pane only.
NextTwice ==
    \/ Onload
    \/ LayoutReady({TRUE})
    \/ (Len(leaves) = 0 /\ UserOpens(NoteFiles, {"source"}, {"new"}, OneSize, {TRUE}) /\ WithinTwice)
    \/ (UserOpens(NoteFiles, {"source"}, {"active"}, OneSize, {TRUE}) /\ WithinTwice)
    \/ (UserFocuses(OneSize, {TRUE}) /\ WithinTwice)
    \/ OpenFileDone({TRUE})

SpecTwice == Init /\ [][NextTwice]_vars

\* The panes the plugin's splits have made.
PluginPanes == {i \in 1..Len(leaves) : leaves[i].by = "plugin"}

\* An automatic split's handler invocation is awaiting openFile.
AutoSplitLoading == \E i \in 1..Len(pending) : pending[i].cont = "auto"

\* C18: since the workspace last had zero markdown views the plugin has made at most
\* one new pane, whatever file-open notifications arrived in between.
C18_AtMostOneSplit == Cardinality(PluginPanes) <= 1

\* C18, the interleaving it names: no automatic split is performed by a file-open
\* delivered while an earlier automatic split is still awaiting openFile.
C18_NoSplitWhileLoading == [][AutoSplitLoading => ~(AutoStep' /\ last'.split)]_vars


\* ------------------------------------------------- C19: the defaults stay as written

\* What a loadSettings call made now, with no stored data, would return: the flat
\* fields are copied from the DEFAULT_SETTINGS literal, enabledOn is the one nested
\* object of DEFAULT_SETTINGS as it is now.
DefaultsNow ==
    [k \in Fields(variant) |->
        IF k = "enabledOn" THEN defEnabledOn ELSE DEFAULT_SETTINGS(variant)[k]]

\* C19: whatever was loaded and whatever was changed in the settings tab, every field
\* of DEFAULT_SETTINGS, nested ones included, has the value written in the source.
C19_DefaultsUnmodified == DefaultsNow = DEFAULT_SETTINGS(variant)

====
